---- MODULE Spec2Model ----
(***************************************************************************)
(* Model of src/src/utils.ts of react-native-ui-datepicker: the date       *)
(* helpers built on dayjs (getWeekdaysMin, areDatesOnSameDay,              *)
(* getYearRange) and the month grid builder (getMonthDays with             *)
(* generateDayObject).                                                     *)
(*                                                                         *)
(* A Dayjs object is the record [y, M, D, t]: year, 0-based month,         *)
(* day-of-month and minutes since local midnight (the resolution of        *)
(* CALENDAR_FORMAT).  Local time is taken without daylight-saving shifts,  *)
(* so a timestamp is DayNumber * 1440 + t.  Strings are sequences of       *)
(* one-character strings, so that formatting and parsing are computed.     *)
(***************************************************************************)
EXTENDS Integers, Sequences, FiniteSets

VARIABLES
  now,       \* the system clock dayjs() reads
  op,        \* the function called last
  args,      \* its arguments
  result,    \* the value it returned
  pc,        \* "call": the call is being made; "done": it has returned
  calledAt,  \* the clock at that call
  saved      \* a result a caller memoized, with its arguments

vars == <<now, op, args, result, pc, calledAt, saved>>

(***************************************************************************)
(* Bounds of the model.                                                    *)
(***************************************************************************)
\* first calendar year of the reference dates given to getMonthDays
FirstYear == 2023
\* number of consecutive years the reference dates range over
NumYears == 2
\* getYearRange is given dates of the years FirstYear .. FirstYear + YearSpan
YearSpan == 14
\* SpecClock lets the clock advance this many days
MaxTicks == 3

(***************************************************************************)
(* Program constants.                                                      *)
(***************************************************************************)
YEAR_PAGE_SIZE == 10
\* the threshold the year span is compared with in getYearRange
YEAR_SPAN_LIMIT == 12
\* cells of a five-week and of a six-week grid in getMonthDays
FIVE_WEEKS == 35
SIX_WEEKS == 42
\* minutes in a day: the timestamps two Dayjs objects are compared by
MINUTES_PER_DAY == 24 * 60

(***************************************************************************)
(* Strings.                                                                *)
(***************************************************************************)
Digits == <<"0", "1", "2", "3", "4", "5", "6", "7", "8", "9">>

IsDigit(c) == \E i \in 1..10 : Digits[i] = c

DigitValue(c) == (CHOOSE i \in 1..10 : Digits[i] = c) - 1

RECURSIVE NatToString(_)
\* Number.prototype.toString for a natural number
NatToString(n) ==
  IF n < 10 THEN <<Digits[n + 1]>>
  ELSE NatToString(n \div 10) \o <<Digits[(n % 10) + 1]>>

\* String(n) / n.toString() for an integer
NumberToString(n) == IF n < 0 THEN <<"-">> \o NatToString(-n) ELSE NatToString(n)

\* dayjs Utils.s (padStart): String(n) left-padded with "0" to `length`,
\* returned unpadded when it is already that long
PadStart(n, length) ==
  LET s == NumberToString(n)
  IN IF Len(s) >= length THEN s
     ELSE [i \in 1..(length - Len(s)) |-> "0"] \o s

RECURSIVE ParseDigits(_, _, _)
\* the digits of s from position i on, up to the first non-digit, as a number
ParseDigits(s, i, acc) ==
  IF i > Len(s) \/ ~IsDigit(s[i]) THEN acc
  ELSE ParseDigits(s, i + 1, acc * 10 + DigitValue(s[i]))

\* parseInt(s, 10) of a string that starts with a digit or with "-" and a
\* digit: an optional sign, then digits up to the first non-digit
ParseInt(s) ==
  IF s[1] = "-" THEN 0 - ParseDigits(s, 2, 0) ELSE ParseDigits(s, 1, 0)

(***************************************************************************)
(* The calendar of dayjs / the JavaScript Date (proleptic Gregorian).      *)
(***************************************************************************)
IsLeapYear(y) == (y % 4 = 0 /\ y % 100 # 0) \/ y % 400 = 0

\* dayjs().daysInMonth() of month M (0-based) of year y
DaysInMonthOf(y, M) ==
  IF M = 1 THEN (IF IsLeapYear(y) THEN 29 ELSE 28)
  ELSE IF M \in {3, 5, 8, 10} THEN 30 ELSE 31

RECURSIVE DaysBeforeMonth(_, _)
DaysBeforeMonth(y, M) ==
  IF M = 0 THEN 0 ELSE DaysBeforeMonth(y, M - 1) + DaysInMonthOf(y, M - 1)

\* days from 0001-01-01 (day 1, a Monday) to the given calendar day
DayNumber(y, M, D) ==
  365 * (y - 1) + ((y - 1) \div 4) - ((y - 1) \div 100) + ((y - 1) \div 400)
    + DaysBeforeMonth(y, M) + D

\* Dayjs.valueOf(): the timestamp `<` and `>` compare two Dayjs objects by
ValueOf(d) == DayNumber(d.y, d.M, d.D) * MINUTES_PER_DAY + d.t

\* Dayjs.day(): 0 = Sunday .. 6 = Saturday
Day(d) == DayNumber(d.y, d.M, d.D) % 7

\* Dayjs.daysInMonth()
DaysInMonth(d) == DaysInMonthOf(d.y, d.M)

RECURSIVE MakeDay(_, _, _, _)
\* Date.prototype.setDate / setMonth: a month outside 0..11 or a day outside
\* the month carries into the neighbouring year or month
MakeDay(y, M, D, t) ==
  IF M < 0 THEN MakeDay(y - 1, M + 12, D, t)
  ELSE IF M > 11 THEN MakeDay(y + 1, M - 12, D, t)
  ELSE IF D < 1 THEN
    (IF M = 0 THEN MakeDay(y - 1, 11, D + 31, t)
     ELSE MakeDay(y, M - 1, D + DaysInMonthOf(y, M - 1), t))
  ELSE IF D > DaysInMonthOf(y, M) THEN MakeDay(y, M + 1, D - DaysInMonthOf(y, M), t)
  ELSE [y |-> y, M |-> M, D |-> D, t |-> t]

\* Dayjs.date(n): set the day-of-month through Date.setDate(n)
SetDate(d, n) == MakeDay(d.y, d.M, n, d.t)

\* a month add that lets the day overflow into the following month, as
\* Date.setMonth does without the clamp of dayjs
AddMonthsOverflow(d, n) == MakeDay(d.y, d.M + n, d.D, d.t)

\* Dayjs.add(n, 'month'): the month is set on day 1, then the day-of-month is
\* clamped to the length of the new month
AddMonths(d, n) ==
  LET first == MakeDay(d.y, d.M + n, 1, d.t)
      dim == DaysInMonthOf(first.y, first.M)
  IN [first EXCEPT !.D = IF d.D < dim THEN d.D ELSE dim]

(***************************************************************************)
(* DateType values and the dayjs constructor.                              *)
(***************************************************************************)
Undefined == [kind |-> "undefined"]

Null == [kind |-> "null"]

\* a string dayjs cannot parse
Unparsable == [kind |-> "string"]

\* a number: the timestamp, in minutes since 1970-01-01 00:00 local time
Timestamp(n) == [kind |-> "number", value |-> n]

\* a Date, a Dayjs object or a well-formed date string
DateValue(y, M, D, t) == [kind |-> "date", y |-> y, M |-> M, D |-> D, t |-> t]

\* JavaScript truthiness of a DateType value: undefined, null and the
\* number 0 are falsy
Truthy(v) == v.kind \notin {"undefined", "null"} /\ (v.kind = "number" => v.value # 0)

\* the Dayjs object of an unparsable input
InvalidDate == [invalid |-> TRUE]

IsValid(d) == d # InvalidDate

\* dayjs(v): the current time for undefined, an invalid object for null and
\* for an unparsable string
dayjs(v) ==
  CASE v.kind = "undefined" -> now
    [] v.kind = "date" -> [y |-> v.y, M |-> v.M, D |-> v.D, t |-> v.t]
    [] v.kind = "number" ->
         MakeDay(1970, 0, 1 + (v.value \div MINUTES_PER_DAY), v.value % MINUTES_PER_DAY)
    [] OTHER -> InvalidDate

DATE_FORMAT == "YYYY-MM-DD"

\* Dayjs.format(format) for the two patterns the module uses on its results
Format(d, format) ==
  IF ~IsValid(d)
  THEN <<"I", "n", "v", "a", "l", "i", "d", " ", "D", "a", "t", "e">>
  ELSE IF format = "YYYY" THEN PadStart(d.y, 4)
  ELSE PadStart(d.y, 4) \o <<"-">> \o PadStart(d.M + 1, 2) \o <<"-">> \o PadStart(d.D, 2)

\* the length Array.from({ length: n }, fn) reads: a negative n counts as 0.
\* The array is then [k \in 1..ToLength(n) |-> fn(k - 1)]
ToLength(n) == IF n < 0 THEN 0 ELSE n

\* Array.prototype.slice(from, to) on a sequence, 0-based, `to` excluded
Slice(s, from, to) == SubSeq(s, from + 1, to)

(***************************************************************************)
(* src/src/utils.ts                                                        *)
(***************************************************************************)
\* dayjs.weekdaysMin() of the default (English) locale
WeekdaysMin == <<"Su", "Mo", "Tu", "We", "Th", "Fr", "Sa">>

WeekdaysShort == <<"Sun", "Mon", "Tue", "Wed", "Thu", "Fri", "Sat">>

Weekdays ==
  <<"Sunday", "Monday", "Tuesday", "Wednesday", "Thursday", "Friday", "Saturday">>

getWeekdays == Weekdays

getWeekdaysShort == WeekdaysShort

\* the rotation written with the two slices exchanged
getWeekdaysMinSwapped(firstDayOfWeek) ==
  IF firstDayOfWeek > 0
  THEN Slice(WeekdaysMin, 0, firstDayOfWeek)
         \o Slice(WeekdaysMin, firstDayOfWeek, Len(WeekdaysMin))
  ELSE WeekdaysMin

getWeekdaysMin(firstDayOfWeek) ==
  IF firstDayOfWeek > 0
  THEN Slice(WeekdaysMin, firstDayOfWeek, Len(WeekdaysMin))
         \o Slice(WeekdaysMin, 0, firstDayOfWeek)
  ELSE WeekdaysMin

areDatesOnSameDay(a, b) ==
  IF ~Truthy(a) \/ ~Truthy(b) THEN FALSE
  ELSE Format(dayjs(a), DATE_FORMAT) = Format(dayjs(b), DATE_FORMAT)

getFormatedDate(date, format) == Format(date, format)

\* dayjs(date, CALENDAR_FORMAT): without the customParseFormat plugin the
\* format argument is not used
getDate(date) == dayjs(date)

\* the length of the year page with the comparison written >=
YearRangeLengthInclusive(startYear, endYear) ==
  IF endYear - startYear >= YEAR_SPAN_LIMIT THEN YEAR_PAGE_SIZE
  ELSE endYear - startYear + 1

YearRangeLength(startYear, endYear) ==
  IF endYear - startYear > YEAR_SPAN_LIMIT THEN YEAR_PAGE_SIZE
  ELSE endYear - startYear + 1

getYearRange(year, maxDate, minDate) ==
  LET endYear == ParseInt(Format(dayjs(maxDate), "YYYY"))
      parsed == ParseInt(Format(dayjs(minDate), "YYYY"))
      startYear == IF parsed < 0 THEN 0 ELSE parsed
      YearAt(i) == startYear + i
  IN [k \in 1..ToLength(YearRangeLength(startYear, endYear)) |-> YearAt(k - 1)]

(***************************************************************************)
(* getMonthDays and generateDayObject.                                     *)
(***************************************************************************)
generateDayObject(day, date, minDate, maxDate, isCurrentMonth) ==
  LET belowMin ==
        IF Truthy(minDate) THEN ValueOf(date) < ValueOf(getDate(minDate)) ELSE FALSE
      disabled ==
        IF Truthy(maxDate) /\ ~belowMin
        THEN ValueOf(date) > ValueOf(getDate(maxDate))
        ELSE belowMin
  IN [text |-> NumberToString(day),
      day |-> day,
      date |-> getFormatedDate(date, DATE_FORMAT),
      disabled |-> disabled,
      isCurrentMonth |-> isCurrentMonth]

\* the reference date with the clock read even when a datetime is supplied
ReferenceDateClock(datetime) == getDate(Undefined)

\* the datetime parameter with its default, dayjs(), and const date
ReferenceDate(datetime) ==
  IF datetime.kind = "undefined" THEN getDate(Undefined) ELSE getDate(datetime)

\* the weekday of day 1 taken without the shift by firstDayOfWeek
dayOfMonthUnshifted(date, firstDayOfWeek) == Day(SetDate(date, 1)) % 7

\* const firstDay, const dayOfMonth: the number of leading cells
dayOfMonth(date, firstDayOfWeek) == Day(SetDate(date, 1 - firstDayOfWeek)) % 7

\* the first leading day taken one day early
prevDayNumberEarly(i, prevMonthDays, leading) == i + (prevMonthDays - leading)

\* const day of the i-th leading cell
prevDayNumber(i, prevMonthDays, leading) == i + (prevMonthDays - leading + 1)

\* date.add(-1, 'month')
prevMonth(date) == AddMonths(date, -1)

\* the month after with the day-of-month left to overflow
nextMonthOverflow(date) == AddMonthsOverflow(date, 1)

\* date.add(1, 'month')
nextMonth(date) == AddMonths(date, 1)

prevDays(date, leading, prevMonthDays, displayFullDays, minimumDate, maximumDate) ==
  IF displayFullDays
  THEN LET Cell(i) ==
             LET day == prevDayNumber(i, prevMonthDays, leading)
                 thisDay == SetDate(prevMonth(date), day)
             IN generateDayObject(day, thisDay, minimumDate, maximumDate, FALSE)
       IN [k \in 1..ToLength(leading) |-> Cell(k - 1)]
  ELSE [k \in 1..leading |-> Null]

\* the trailing length with the six-week test written >=
nextMonthDaysInclusive(displayFullDays, monthDaysOffset) ==
  IF displayFullDays
  THEN (IF monthDaysOffset >= FIVE_WEEKS THEN SIX_WEEKS - monthDaysOffset
        ELSE FIVE_WEEKS - monthDaysOffset)
  ELSE 0

\* the trailing length computed whatever displayFullDays is
nextMonthDaysAlways(displayFullDays, monthDaysOffset) ==
  IF monthDaysOffset > FIVE_WEEKS THEN SIX_WEEKS - monthDaysOffset
  ELSE FIVE_WEEKS - monthDaysOffset

\* const nextMonthDays
nextMonthDays(displayFullDays, monthDaysOffset) ==
  IF displayFullDays
  THEN (IF monthDaysOffset > FIVE_WEEKS THEN SIX_WEEKS - monthDaysOffset
        ELSE FIVE_WEEKS - monthDaysOffset)
  ELSE 0

currentDays(date, daysInMonth, minimumDate, maximumDate) ==
  LET Cell(i) ==
        LET day == i + 1
            thisDay == SetDate(date, day)
        IN generateDayObject(day, thisDay, minimumDate, maximumDate, TRUE)
  IN [k \in 1..ToLength(daysInMonth) |-> Cell(k - 1)]

nextDays(date, count, minimumDate, maximumDate) ==
  LET Cell(i) ==
        LET day == i + 1
            thisDay == SetDate(nextMonth(date), day)
        IN generateDayObject(day, thisDay, minimumDate, maximumDate, FALSE)
  IN [k \in 1..ToLength(count) |-> Cell(k - 1)]

getMonthDays(datetime, displayFullDays, minimumDate, maximumDate, firstDayOfWeek) ==
  LET date == ReferenceDate(datetime)
      daysInMonth == DaysInMonth(date)
      prevMonthDays == DaysInMonth(prevMonth(date))
      leading == dayOfMonth(date, firstDayOfWeek)
      monthDaysOffset == leading + daysInMonth
  IN prevDays(date, leading, prevMonthDays, displayFullDays, minimumDate, maximumDate)
       \o currentDays(date, daysInMonth, minimumDate, maximumDate)
       \o nextDays(date, nextMonthDays(displayFullDays, monthDaysOffset),
                   minimumDate, maximumDate)

(***************************************************************************)
(* The inputs the functions are called with.                               *)
(***************************************************************************)
\* times of day, in minutes: midnight and 12:30
Times == {0, 750}

RefYears == FirstYear..(FirstYear + NumYears - 1)

\* reference dates: the last days of every month at midnight, and its first
\* day at both times
RefDates ==
  UNION {{DateValue(y, M, D, 0) : D \in {d \in 28..31 : d <= DaysInMonthOf(y, M)}}
           \cup {DateValue(y, M, 1, t) : t \in Times} :
         y \in RefYears, M \in 0..11}

AsValue(d) == DateValue(d.y, d.M, d.D, d.t)

\* a bound near the reference month: a day near the end of the month before
\* it or in the middle of it, at both times
BoundsNear(datetime) ==
  LET ref == dayjs(datetime)
  IN {AsValue(MakeDay(ref.y, ref.M, n, t)) : n \in {-2, 15}, t \in Times}

\* <<minimumDate, maximumDate>>: both absent, one of them present, or both
BoundPairs(datetime) ==
  LET ref == dayjs(datetime)
      early == AsValue(MakeDay(ref.y, ref.M, -2, 0))
      late == AsValue(MakeDay(ref.y, ref.M, 15, 750))
  IN {<<Undefined, Undefined>>, <<early, late>>, <<late, early>>}
       \cup {<<bound, Undefined>> : bound \in BoundsNear(datetime)}
       \cup {<<Undefined, bound>> : bound \in BoundsNear(datetime)}

\* the years getYearRange is given: negative ones, and a run after FirstYear
RangeYears == {-1000, -100, -99, -5, 0, 1} \cup FirstYear..(FirstYear + YearSpan)

\* the values areDatesOnSameDay is given
SameDayValues ==
  {Undefined, Null, Unparsable, Timestamp(0), Timestamp(750), Timestamp(24 * 60)}
    \cup {DateValue(1970, 0, 1, 0), DateValue(FirstYear + 1, 1, 29, 0),
          DateValue(FirstYear + 1, 1, 29, 750), DateValue(FirstYear + 1, 2, 1, 0),
          DateValue(FirstYear, 1, 28, 0), DateValue(FirstYear + 1, 1, 28, 750)}

\* the clock when the program starts: 30 January of the second year, 10:00
StartOfClock == [y |-> FirstYear + 1, M |-> 0, D |-> 30, t |-> 600]

NotSaved == [set |-> FALSE]

\* the calls of getMonthDays with a datetime of `datetimes` and a week start
\* of `starts`
MonthDaysCalls(datetimes, starts) ==
  UNION {{[op |-> "getMonthDays",
           args |-> [datetime |-> datetime, displayFullDays |-> displayFullDays,
                     minimumDate |-> bounds[1], maximumDate |-> bounds[2],
                     firstDayOfWeek |-> firstDayOfWeek]] :
            displayFullDays \in BOOLEAN, firstDayOfWeek \in starts,
            bounds \in BoundPairs(datetime)} :
         datetime \in datetimes}

YearRangeCalls ==
  {[op |-> "getYearRange",
    args |-> [year |-> year, maxDate |-> DateValue(maxYear, 0, 1, 0),
              minDate |-> DateValue(minYear, 11, 31, 750)]] :
     year \in {0, FirstYear}, maxYear \in RangeYears, minYear \in RangeYears}

SameDayCalls ==
  {[op |-> "areDatesOnSameDay", args |-> [a |-> a, b |-> b]] :
     a \in SameDayValues, b \in SameDayValues}

WeekdaysCalls ==
  {[op |-> "getWeekdaysMin", args |-> [firstDayOfWeek |-> firstDayOfWeek]] :
     firstDayOfWeek \in 0..6}
    \cup {[op |-> "getWeekdays", args |-> <<>>], [op |-> "getWeekdaysShort", args |-> <<>>]}

\* every call the model makes
Calls ==
  MonthDaysCalls(RefDates \cup {Undefined}, 0..6)
    \cup YearRangeCalls \cup SameDayCalls \cup WeekdaysCalls

(***************************************************************************)
(* The state machine.  A call is drawn (pc = "call"), then the function    *)
(* called computes its result from the arguments (pc = "done").            *)
(***************************************************************************)
Init ==
  /\ now = StartOfClock
  /\ pc = "call"
  /\ \E call \in Calls : op = call.op /\ args = call.args
  /\ result = <<>>
  /\ calledAt = StartOfClock
  /\ saved = NotSaved

\* the call drawn is a call of `name`
Calling(name) == pc = "call" /\ op = name

\* the function called returns `value`
Return(value) ==
  /\ result' = value
  /\ calledAt' = now
  /\ pc' = "done"
  /\ UNCHANGED <<now, op, args, saved>>

GetWeekdays ==
  /\ Calling("getWeekdays")
  /\ Return(getWeekdays)

GetWeekdaysShort ==
  /\ Calling("getWeekdaysShort")
  /\ Return(getWeekdaysShort)

GetWeekdaysMin ==
  /\ Calling("getWeekdaysMin")
  /\ Return(getWeekdaysMin(args.firstDayOfWeek))

AreDatesOnSameDay ==
  /\ Calling("areDatesOnSameDay")
  /\ Return(areDatesOnSameDay(args.a, args.b))

GetYearRange ==
  /\ Calling("getYearRange")
  /\ Return(getYearRange(args.year, args.maxDate, args.minDate))

GetMonthDays ==
  /\ Calling("getMonthDays")
  /\ Return(getMonthDays(args.datetime, args.displayFullDays, args.minimumDate,
                         args.maximumDate, args.firstDayOfWeek))

Next ==
  \/ GetWeekdays
  \/ GetWeekdaysShort
  \/ GetWeekdaysMin
  \/ AreDatesOnSameDay
  \/ GetYearRange
  \/ GetMonthDays

Spec == Init /\ [][Next]_vars

(***************************************************************************)
(* The clock.  SpecClock is a caller that keeps calling getMonthDays      *)
(* while the system clock advances, and memoizes results by the arguments. *)
(***************************************************************************)
\* the calls made under the advancing clock: the reference date omitted or
\* supplied, minimumDate absent or present
ClockCalls ==
  {[op |-> "getMonthDays",
    args |-> [datetime |-> datetime, displayFullDays |-> displayFullDays,
              minimumDate |-> minimumDate, maximumDate |-> Undefined,
              firstDayOfWeek |-> firstDayOfWeek]] :
     datetime \in {Undefined, DateValue(FirstYear + 1, 0, 31, 0)},
     displayFullDays \in BOOLEAN,
     minimumDate \in {Undefined, DateValue(FirstYear + 1, 0, 31, 750)},
     firstDayOfWeek \in {0, 1}}

InitClock ==
  /\ now = StartOfClock
  /\ pc = "done"
  /\ op = "none"
  /\ args = <<>>
  /\ result = <<>>
  /\ calledAt = StartOfClock
  /\ saved = NotSaved

\* a day passes; the functions are synchronous, so none is running meanwhile
Tick ==
  /\ pc = "done"
  /\ DayNumber(now.y, now.M, now.D)
       < DayNumber(StartOfClock.y, StartOfClock.M, StartOfClock.D) + MaxTicks
  /\ now' = SetDate(now, now.D + 1)
  /\ UNCHANGED <<op, args, result, pc, calledAt, saved>>

\* the caller makes its next call
Call ==
  /\ pc = "done"
  /\ \E call \in ClockCalls : op' = call.op /\ args' = call.args
  /\ pc' = "call"
  /\ result' = <<>>
  /\ UNCHANGED <<now, calledAt, saved>>

\* the caller memoizes the grid returned under the arguments of the call
Memoize ==
  /\ pc = "done"
  /\ op = "getMonthDays"
  /\ saved' = [set |-> TRUE, args |-> args, result |-> result, at |-> calledAt]
  /\ UNCHANGED <<now, op, args, result, pc, calledAt>>

NextClock ==
  \/ Tick
  \/ Call
  \/ GetMonthDays
  \/ Memoize

SpecClock == InitClock /\ [][NextClock]_vars

(***************************************************************************)
(* What the properties below read off a finished call.                     *)
(***************************************************************************)
Done(name) == pc = "done" /\ op = name

\* the reference date of a finished getMonthDays call, as year, month, day
Ref == IF args.datetime.kind = "undefined" THEN calledAt ELSE args.datetime

\* the weekday of day 1 of the reference month, 0 = Sunday
FirstWeekday == DayNumber(Ref.y, Ref.M, 1) % 7

\* leadOffset: (weekday of day 1 - firstDayOfWeek) mod 7
LeadOffset == (FirstWeekday - args.firstDayOfWeek + 7) % 7

RefDaysInMonth == DaysInMonthOf(Ref.y, Ref.M)

\* <<year, month>> of the month before and after the reference month
MonthBefore == IF Ref.M = 0 THEN <<Ref.y - 1, 11>> ELSE <<Ref.y, Ref.M - 1>>

MonthAfter == IF Ref.M = 11 THEN <<Ref.y + 1, 0>> ELSE <<Ref.y, Ref.M + 1>>

IsCell(c) == c # Null

\* the calendar day a "YYYY-MM-DD" string names, with a 0-based month
ParseDate(s) ==
  [y |-> ParseDigits(SubSeq(s, 1, 4), 1, 0),
   M |-> ParseDigits(SubSeq(s, 6, 7), 1, 0) - 1,
   D |-> ParseDigits(SubSeq(s, 9, 10), 1, 0)]

\* the day number of the calendar day a cell's date names
CellDayNumber(c) ==
  LET d == ParseDate(c.date) IN DayNumber(d.y, d.M, d.D)

\* the day number of the calendar day of a DateType value that is a date
ValueDayNumber(v) == DayNumber(v.y, v.M, v.D)

\* the indices of the non-placeholder cells of the grid returned
CellIndices == {k \in 1..Len(result) : IsCell(result[k])}

(***************************************************************************)
(* C1: with displayFullDays = true the grid length is a multiple of 7 and  *)
(* is 35 or 42: 42 exactly when leadOffset + daysInMonth > 35, 35          *)
(* otherwise, and the trailing length is never negative.                   *)
(***************************************************************************)
C1_FullGridLength ==
  (Done("getMonthDays") /\ args.displayFullDays) =>
    /\ Len(result) % 7 = 0
    /\ Len(result) \in {35, 42}
    /\ (Len(result) = 42) <=> (LeadOffset + RefDaysInMonth > 35)
    /\ Len(result) - (LeadOffset + RefDaysInMonth) >= 0

\* a six-week grid and a month whose cells fill five weeks exactly both occur
C1_Witness ==
  /\ Done("getMonthDays") /\ args.displayFullDays
  /\ LeadOffset + RefDaysInMonth = 35
  /\ Len(result) = 35

(***************************************************************************)
(* C2: a non-placeholder cell is disabled if and only if its calendar date *)
(* is strictly before minimumDate or strictly after maximumDate, whatever  *)
(* the times of day; an absent bound imposes no constraint.                *)
(***************************************************************************)
C2_DisabledByCalendarDate ==
  Done("getMonthDays") =>
    \A k \in CellIndices :
      result[k].disabled <=>
        \/ /\ args.minimumDate # Undefined
           /\ CellDayNumber(result[k]) < ValueDayNumber(args.minimumDate)
        \/ /\ args.maximumDate # Undefined
           /\ CellDayNumber(result[k]) > ValueDayNumber(args.maximumDate)

(***************************************************************************)
(* C3: with displayFullDays = false the grid has leadOffset + daysInMonth  *)
(* entries: leadOffset null placeholders, then the cells of days           *)
(* 1..daysInMonth in ascending order, each of the current month, and no    *)
(* trailing cell.                                                          *)
(***************************************************************************)
C3_PlaceholderGrid ==
  (Done("getMonthDays") /\ ~args.displayFullDays) =>
    /\ Len(result) = LeadOffset + RefDaysInMonth
    /\ \A k \in 1..LeadOffset : result[k] = Null
    /\ \A i \in 1..RefDaysInMonth :
         /\ IsCell(result[LeadOffset + i])
         /\ result[LeadOffset + i].day = i
         /\ result[LeadOffset + i].isCurrentMonth

C3_Witness ==
  /\ Done("getMonthDays") /\ ~args.displayFullDays
  /\ LeadOffset = 6 /\ RefDaysInMonth = 31
  /\ Len(result) = 37

(***************************************************************************)
(* C4: cell.day and cell.text are the day-of-month of cell.date, and       *)
(* cell.date lies in the month and year of its region: the month before    *)
(* the reference month for leading cells, the reference month for current  *)
(* cells, the month after for trailing cells.                              *)
(***************************************************************************)
C4_CellDateInRegion ==
  Done("getMonthDays") =>
    \A k \in CellIndices :
      LET cell == result[k]
          d == ParseDate(cell.date)
          region == IF k <= LeadOffset THEN MonthBefore
                    ELSE IF k <= LeadOffset + RefDaysInMonth THEN <<Ref.y, Ref.M>>
                    ELSE MonthAfter
      IN /\ Len(cell.date) = 10 /\ cell.date[5] = "-" /\ cell.date[8] = "-"
         /\ d.D = cell.day
         /\ ParseInt(cell.text) = cell.day
         /\ cell.text = NumberToString(d.D)
         /\ <<d.y, d.M>> = region

\* the reference day is the 31st, the months around it are shorter, and the
\* grid has leading and trailing cells
C4_Witness ==
  /\ Done("getMonthDays") /\ args.displayFullDays
  /\ Ref.D = 31 /\ Ref.M \in {0, 11}
  /\ LeadOffset > 0
  /\ Len(result) > LeadOffset + RefDaysInMonth
  /\ ParseDate(result[Len(result)].date).M = MonthAfter[2]

(***************************************************************************)
(* C5 as stated: with startYear the year of minDate clamped to 0 when      *)
(* negative and endYear the year of maxDate, getYearRange returns          *)
(* consecutive ascending years from startYear: exactly 10 of them when     *)
(* endYear - startYear > 12, exactly endYear - startYear + 1 otherwise.    *)
(***************************************************************************)
C5_YearRangeAsStated ==
  Done("getYearRange") =>
    LET startYear == IF args.minDate.y < 0 THEN 0 ELSE args.minDate.y
        endYear == args.maxDate.y
        count == IF endYear - startYear > 12 THEN 10 ELSE endYear - startYear + 1
    IN /\ Len(result) = count
       /\ \A i \in 1..Len(result) : result[i] = startYear + (i - 1)

\* the year parseInt reads from the 'YYYY' formatting of a date: the calendar
\* year, except that the years -99..-1 are formatted "00-5" and read as 0
YearRead(v) == IF v.y \in -99..-1 THEN 0 ELSE v.y

(***************************************************************************)
(* C5 as amended: startYear and endYear are the years read from the        *)
(* 'YYYY' formatting of minDate and maxDate (the calendar year, 0 for the  *)
(* years -99..-1), startYear clamped to 0 when negative; getYearRange      *)
(* returns consecutive ascending years from startYear: exactly 10 when     *)
(* endYear - startYear > 12, otherwise endYear - startYear + 1 of them, or *)
(* none when that number is negative; _year has no effect.                 *)
(***************************************************************************)
C5_YearRange ==
  Done("getYearRange") =>
    LET startYear == IF YearRead(args.minDate) < 0 THEN 0 ELSE YearRead(args.minDate)
        endYear == YearRead(args.maxDate)
        span == endYear - startYear + 1
        count == IF endYear - startYear > 12 THEN 10 ELSE IF span < 0 THEN 0 ELSE span
    IN /\ Len(result) = count
       /\ \A i \in 1..Len(result) : result[i] = startYear + (i - 1)

\* maxDate lies more than a year before minDate and no year is returned
C5_Witness ==
  /\ Done("getYearRange")
  /\ args.minDate.y > 0
  /\ args.maxDate.y + 1 < args.minDate.y
  /\ result = <<>>

(***************************************************************************)
(* C6: getWeekdaysMin(firstDayOfWeek) is the 7-element minimal weekday     *)
(* list rotated left by firstDayOfWeek: result[i] = base[(i +              *)
(* firstDayOfWeek) mod 7], a permutation of the base list, the base list   *)
(* itself for 0; getWeekdays and getWeekdaysShort are not rotated.         *)
(***************************************************************************)
C6_WeekdaysRotation ==
  /\ Done("getWeekdaysMin") =>
       /\ Len(result) = 7
       /\ \A i \in 0..6 : result[i + 1] = WeekdaysMin[((i + args.firstDayOfWeek) % 7) + 1]
       /\ {result[i] : i \in 1..7} = {WeekdaysMin[i] : i \in 1..7}
       /\ (args.firstDayOfWeek = 0 => result = WeekdaysMin)
  /\ Done("getWeekdays") => (Len(result) = 7 /\ result[1] = "Sunday")
  /\ Done("getWeekdaysShort") => (Len(result) = 7 /\ result[1] = "Sun")

\* the list rotated by 2 starts on Tuesday and ends on Monday
C6_Witness ==
  /\ Done("getWeekdaysMin")
  /\ args.firstDayOfWeek = 2
  /\ result[1] = "Tu" /\ result[7] = "Mo"

\* a DateType value is absent
Absent(v) == v \in {Undefined, Null}

\* two supplied values fall on the same calendar day
SameCalendarDay(a, b) ==
  /\ IsValid(dayjs(a)) /\ IsValid(dayjs(b))
  /\ dayjs(a).y = dayjs(b).y /\ dayjs(a).M = dayjs(b).M /\ dayjs(a).D = dayjs(b).D

(***************************************************************************)
(* C7: areDatesOnSameDay(a, b) is false whenever either argument is        *)
(* absent, otherwise true if and only if a and b fall on the same calendar *)
(* day, and it is symmetric in its arguments.                              *)
(***************************************************************************)
C7_SameDay ==
  Done("areDatesOnSameDay") =>
    /\ (Absent(args.a) \/ Absent(args.b)) => result = FALSE
    /\ (~Absent(args.a) /\ ~Absent(args.b)) =>
         (result <=> SameCalendarDay(args.a, args.b))
    /\ result = areDatesOnSameDay(args.b, args.a)

(***************************************************************************)
(* C9: leadOffset = (weekday of day 1 - firstDayOfWeek) mod 7 lies in      *)
(* 0..6 and is the number of leading entries, and the grid is aligned to   *)
(* weeks starting at firstDayOfWeek: the cell at index k has a date whose  *)
(* weekday is (firstDayOfWeek + k) mod 7, the weekday named at column      *)
(* k mod 7 of getWeekdaysMin(firstDayOfWeek).                              *)
(***************************************************************************)
C9_WeekAlignment ==
  Done("getMonthDays") =>
    /\ LeadOffset \in 0..6
    /\ Len(result) > LeadOffset
    /\ IsCell(result[LeadOffset + 1])
    /\ result[LeadOffset + 1].day = 1 /\ result[LeadOffset + 1].isCurrentMonth
    /\ \A idx \in CellIndices :
         LET k == idx - 1
             weekday == CellDayNumber(result[idx]) % 7
         IN /\ weekday = (args.firstDayOfWeek + k) % 7
            /\ getWeekdaysMin(args.firstDayOfWeek)[(k % 7) + 1] = WeekdaysMin[weekday + 1]

\* the week starts on Saturday and day 1 is a Friday: six leading cells
C9_Witness ==
  /\ Done("getMonthDays")
  /\ args.firstDayOfWeek = 6
  /\ LeadOffset = 6
  /\ result[7].day = 1

(***************************************************************************)
(* C10: with displayFullDays = true the grid is one unbroken run of        *)
(* calendar days: the last leadOffset days of the month before, days       *)
(* 1..daysInMonth of the reference month, then the first days of the month *)
(* after; each cell is one day after the cell before it, and only the      *)
(* current-month cells have isCurrentMonth = true.                         *)
(***************************************************************************)
C10_ChronologicalRun ==
  (Done("getMonthDays") /\ args.displayFullDays) =>
    LET daysBefore == DaysInMonthOf(MonthBefore[1], MonthBefore[2])
    IN /\ \A k \in 1..Len(result) : IsCell(result[k])
       /\ \A k \in 2..Len(result) :
            CellDayNumber(result[k]) = CellDayNumber(result[k - 1]) + 1
       /\ \A k \in 1..LeadOffset : result[k].day = daysBefore - LeadOffset + k
       /\ \A k \in 1..RefDaysInMonth : result[LeadOffset + k].day = k
       /\ \A k \in (LeadOffset + RefDaysInMonth + 1)..Len(result) :
            result[k].day = k - (LeadOffset + RefDaysInMonth)
       /\ CellDayNumber(result[LeadOffset + 1]) = DayNumber(Ref.y, Ref.M, 1)
       /\ \A k \in 1..Len(result) :
            result[k].isCurrentMonth <=>
              (LeadOffset < k /\ k <= LeadOffset + RefDaysInMonth)

\* a grid over the year boundary with leading and trailing cells
C10_Witness ==
  /\ Done("getMonthDays") /\ args.displayFullDays
  /\ Ref.M = 11
  /\ LeadOffset > 0 /\ ~result[1].isCurrentMonth
  /\ Len(result) > LeadOffset + RefDaysInMonth
  /\ ~result[Len(result)].isCurrentMonth

\* the call that has returned has the arguments of the memoized one
SameArguments == saved.set /\ Done("getMonthDays") /\ saved.args = args

(***************************************************************************)
(* C8 as stated: two calls of getMonthDays with equal arguments return     *)
(* equal grids whatever the clock time is and whatever calls happened in   *)
(* between, an omitted reference date included.                            *)
(***************************************************************************)
C8_MemoizableAsStated == SameArguments => saved.result = result

(***************************************************************************)
(* C8 as amended: two calls of getMonthDays with equal arguments and a     *)
(* supplied reference date return equal grids whatever the clock time is   *)
(* and whatever calls happened in between; with the reference date omitted *)
(* the grid is built for the clock's current date.                         *)
(***************************************************************************)
C8_Memoizable ==
  /\ (SameArguments /\ args.datetime # Undefined) => saved.result = result
  /\ (SameArguments /\ args.datetime = Undefined /\ saved.at = calledAt) =>
       saved.result = result
  /\ (Done("getMonthDays") /\ args.datetime = Undefined) =>
       \A k \in CellIndices :
         result[k].isCurrentMonth =>
           /\ ParseDate(result[k].date).y = calledAt.y
           /\ ParseDate(result[k].date).M = calledAt.M

\* the same call with a supplied reference date, made in January and again
\* in February with bounds set
C8_Witness ==
  /\ SameArguments
  /\ args.datetime # Undefined /\ args.minimumDate # Undefined
  /\ saved.at.M = 0 /\ calledAt.M = 1
  /\ saved.result = result

====
